---- MODULE Spec2Model ----
(***************************************************************************)
(* A model of the GitHub update-checker agent: the three GitHub tools of   *)
(* github_tool.py and the function-calling loop of app.py.                 *)
(*                                                                         *)
(* Strings are sequences of tokens.  A token is a single character or an   *)
(* opaque piece of literal text; the status prefixes, titles, labels and   *)
(* file contents are spelled character by character, so that lower(),      *)
(* startswith(), split() and join() are computed, not assumed.             *)
(***************************************************************************)
EXTENDS Integers, Sequences, FiniteSets, TLC

VARIABLES
    pc,              \* position of the script run: idle, executing, done, raised
    function_calls,  \* response.function_calls of the latest model response
    idx,             \* position of the for loop in function_calls (1-based)
    tool_results,    \* the batch under construction
    trace,           \* per entry of tool_results: the HTTP exchanges of that call
    sent,            \* messages passed to chat_session.send_message this turn
    rounds,          \* tool rounds completed this turn
    gemini_calls,    \* st.session_state.gemini_calls
    turns,           \* user turns started
    raised_by        \* HTTP exchanges of the call that raised (pc = "raised")

vars == <<pc, function_calls, idx, tool_results, trace, sent, rounds,
          gemini_calls, turns, raised_by>>

----------------------------------------------------------------------------
(* Bounds of the model *)

MaxCalls == 2        \* function calls in one model response
MaxRounds == 2       \* tool rounds in one user turn
MaxTurns == 1        \* user turns in one session
MaxContentLen == 11  \* characters of a fetched file (dependency-file runs)
MaxItems == 3        \* items on the issues page (release-PR runs)

----------------------------------------------------------------------------
(* Generic string and sequence helpers (Python built-ins) *)

NL == "\n"

Min(a, b) == IF a < b THEN a ELSE b

\* s[:n]
Take(s, n) == SubSeq(s, 1, Min(n, Len(s)))

\* s.startswith(p)
StartsWith(s, p) == Len(s) >= Len(p) /\ SubSeq(s, 1, Len(p)) = p

UpperChars == <<"A","B","C","D","E","F","G","H","I","J","K","L","M",
                "N","O","P","Q","R","S","T","U","V","W","X","Y","Z">>
LowerChars == <<"a","b","c","d","e","f","g","h","i","j","k","l","m",
                "n","o","p","q","r","s","t","u","v","w","x","y","z">>

LowerChar(c) ==
    IF \E i \in 1..Len(UpperChars) : UpperChars[i] = c
    THEN LowerChars[CHOOSE i \in 1..Len(UpperChars) : UpperChars[i] = c]
    ELSE c

\* s.lower()
Lower(s) == [i \in 1..Len(s) |-> LowerChar(s[i])]

\* s.split(sep): the fields between the separators, at least one
RECURSIVE SplitAcc(_, _, _, _)
SplitAcc(s, sep, i, cur) ==
    IF i > Len(s) THEN <<cur>>
    ELSE IF s[i] = sep THEN <<cur>> \o SplitAcc(s, sep, i + 1, <<>>)
    ELSE SplitAcc(s, sep, i + 1, Append(cur, s[i]))

Split(s, sep) == SplitAcc(s, sep, 1, <<>>)

\* sep.join(parts)
RECURSIVE Join(_, _)
Join(parts, sep) ==
    IF Len(parts) = 0 THEN <<>>
    ELSE IF Len(parts) = 1 THEN parts[1]
    ELSE parts[1] \o <<sep>> \o Join(Tail(parts), sep)

\* s.replace(a, b) for single tokens
Replace(s, a, b) == [i \in 1..Len(s) |-> IF s[i] = a THEN b ELSE s[i]]

DigitChars == <<"0","1","2","3","4","5","6","7","8","9">>

\* str(n) for n >= 0
RECURSIVE IntToStr(_)
IntToStr(n) ==
    IF n < 10 THEN <<DigitChars[n + 1]>>
    ELSE Append(IntToStr(n \div 10), DigitChars[(n % 10) + 1])

\* Python's `x in xs` for a list
InList(x, xs) == \E i \in 1..Len(xs) : xs[i] = x

\* any(kw in xs for kw in kws)
AnyIn(kws, xs) == \E k \in 1..Len(kws) : InList(kws[k], xs)

----------------------------------------------------------------------------
(* Values that cross the HTTP and the tool boundary *)

\* A JSON member: absent from the object, null, or a value
Absent(d) == [k |-> "absent", v |-> d]
Null(d) == [k |-> "null", v |-> d]
Val(v) == [k |-> "val", v |-> v]

\* requests.get either raises a RequestException or returns a response
Response(status, body) == [exc |-> FALSE, status |-> status, body |-> body]
TransportFailure(body) == [exc |-> TRUE, status |-> 0, body |-> body]

\* What a tool call does: return a string, or let an exception escape
Return(value) == [raised |-> FALSE, value |-> value]
Raise(exc) == [raised |-> TRUE, value |-> <<exc>>]

P_SUCCESS == <<"S","U","C","C","E","S","S",":">>
P_ERROR == <<"E","R","R","O","R",":">>
P_TOOL_ERROR == <<"T","O","O","L","_","E","R","R","O","R",":">>

ORG == "hashicorp"
REPO == "vault"
FILE_PATH == "go.mod"
TAG_NAME == "v1.16.0"

\* The backquote character and the three-backquote fence, as tokens
BT == "BACKQUOTE"
FENCE == "FENCE"

----------------------------------------------------------------------------
(* github_tool.py: check_latest_release *)

\* One HTTP exchange of a tool call: the endpoint asked, the query, the answer
Exchange(endpoint, params, outcome) ==
    [endpoint |-> endpoint, params |-> params, outcome |-> outcome]

NoParams == [since |-> "", per_page |-> 0]

ReturnH(value, http) == [raised |-> FALSE, value |-> value, http |-> http]
RaiseH(exc, http) == [raised |-> TRUE, value |-> <<exc>>, http |-> http]

BODY_SNIPPET_LEN == 100
SNIPPET_LINES == 10
PER_PAGE == 50

\* The timestamps datetime.fromisoformat accepts (after 'Z' -> '+00:00'),
\* with their strftime("%Y-%m-%d") rendering
IsoTimestamps == {"2024-04-10T12:00:00Z", "2023-12-31T23:59:59Z"}

FormatDate(ts) ==
    CASE ts = "2024-04-10T12:00:00Z" -> "2024-04-10"
      [] ts = "2023-12-31T23:59:59Z" -> "2023-12-31"

\* (mutant) the message without its status prefix
ApiFailed_NoPrefix(status) ==
    <<"GitHub API failed with status code ">> \o IntToStr(status) \o <<".">>

\* f"ERROR: GitHub API failed with status code {status}."
ApiFailed(status) ==
    P_ERROR \o <<" GitHub API failed with status code ">>
            \o IntToStr(status) \o <<".">>

ApiFailed403 ==
    P_ERROR \o <<" GitHub API failed with status code 403.",
                 " Check GITHUB_TOKEN and rate limit.">>

\* data.get(key, 'N/A') rendered inside an f-string
GetOrNA(field) ==
    CASE field.k = "absent" -> "N/A"
      [] field.k = "null" -> "None"
      [] OTHER -> field.v

\* Lines 42-60: the 200 branch; only RequestException is caught around it
LatestReleaseReport(data) ==
    IF data.shape # "object" THEN Raise("AttributeError")   \* data.get on None
    ELSE
    LET version == GetOrNA(data.tag_name)
        release_url == GetOrNA(data.html_url)
        pub == data.published_at
        bod == data.body
    IN  IF pub.k = "null" THEN Raise("AttributeError")      \* None.replace
        ELSE IF pub.k = "val" /\ pub.v # "N/A" /\ pub.v \notin IsoTimestamps
             THEN Raise("ValueError")                        \* fromisoformat
        ELSE IF bod.k = "null" THEN Raise("TypeError")      \* None[:100]
        ELSE
        LET published_date ==
                IF pub.k = "absent" \/ pub.v = "N/A" THEN "N/A"
                ELSE FormatDate(pub.v)
            body_text == IF bod.k = "absent" THEN <<>> ELSE bod.v
            body_snippet ==
                Replace(Take(body_text, BODY_SNIPPET_LEN), NL, " ") \o <<"...">>
        IN  Return(P_SUCCESS
                   \o <<" **", ORG, "/", REPO, "** Latest Release: **", version,
                        "** | ", "Published: ", published_date, ". ",
                        "Release URL: ", release_url, ". ",
                        "Notes Snippet: \"">>
                   \o body_snippet \o <<"\"">>)

check_latest_release_body(o) ==
    IF o.exc
    THEN Return(P_TOOL_ERROR \o <<" Network or connection issue: ", "ConnectionError">>)
    ELSE IF o.status = 404
    THEN Return(P_ERROR \o <<" Repository ", ORG, "/", REPO,
                             " not found or has no releases.">>)
    ELSE IF o.status = 403 THEN Return(ApiFailed403)
    ELSE IF o.status # 200 THEN Return(ApiFailed(o.status))
    ELSE LatestReleaseReport(o.body)

\* (mutant) a failed request is repeated once before the result is built
check_latest_release_RetryOnce(o) ==
    LET r == check_latest_release_body(o)
        e == Exchange("releases/latest", NoParams, o)
    IN  [raised |-> r.raised, value |-> r.value,
         http |-> IF o.exc \/ o.status # 200 THEN <<e, e>> ELSE <<e>>]

check_latest_release(o) ==
    LET r == check_latest_release_body(o)
    IN  [raised |-> r.raised, value |-> r.value,
         http |-> <<Exchange("releases/latest", NoParams, o)>>]

----------------------------------------------------------------------------
(* github_tool.py: get_dependency_file *)

\* (mutant) the slice is one line too long
Snippet_OffByOne(content_text) ==
    LET lines == Split(content_text, NL)
    IN  Join(Take(lines, SNIPPET_LINES + 1), NL)

\* Lines 89-91: split on '\n', keep lines[:10], join with '\n'
Snippet(content_text) ==
    LET lines == Split(content_text, NL)
    IN  Join(Take(lines, SNIPPET_LINES), NL)

get_dependency_file_body(o) ==
    IF o.exc    \* except Exception
    THEN Return(P_TOOL_ERROR \o <<" Could not process file content. Error: ",
                                  "ConnectionError">>)
    ELSE IF o.status = 404
    THEN Return(P_ERROR \o <<" File '", FILE_PATH, "' not found in ",
                             ORG, "/", REPO, ".">>)
    ELSE IF o.status = 403 THEN Return(ApiFailed403)
    ELSE IF o.status # 200 THEN Return(ApiFailed(o.status))
    ELSE Return(P_SUCCESS \o <<" Content of ", BT, FILE_PATH, BT, ":", NL, FENCE, NL>>
                \o Snippet(o.body) \o <<NL, FENCE>>)

get_dependency_file(o) ==
    LET r == get_dependency_file_body(o)
    IN  [raised |-> r.raised, value |-> r.value,
         http |-> <<Exchange("contents", NoParams, o)>>]

----------------------------------------------------------------------------
(* github_tool.py: _fetch_merged_prs *)

FetchOk(prs) == [raised |-> FALSE, exc |-> "", prs |-> prs]
FetchRaise(exc) == [raised |-> TRUE, exc |-> exc, prs |-> <<>>]

\* Line 128: 'pull_request' in item and item.get("pull_request", {}).get("merged_at")
\* "raise" when the marker is null (None.get), else whether the test is truthy
MergedTest(item) ==
    CASE item.pull_request.k = "absent" -> "skip"
      [] item.pull_request.k = "null" -> "raise"
      [] OTHER -> IF item.pull_request.v.merged_at.k = "val" THEN "keep" ELSE "skip"

\* Lines 129-134: the summary appended for an eligible item
PrOf(item) ==
    [number |-> item.number,
     title |-> item.title,
     labels |-> IF item.labels.k = "absent" THEN <<>> ELSE item.labels.v,
     url |-> GetOrNA(item.html_url)]

\* Lines 125-136: the loop over the page; the first failing item aborts it
RECURSIVE FilterItems(_, _, _)
FilterItems(items, i, prs) ==
    IF i > Len(items) THEN FetchOk(prs)
    ELSE LET item == items[i]
             t == MergedTest(item)
         IN  IF t = "raise" THEN FetchRaise("AttributeError")
             ELSE IF t = "skip" THEN FilterItems(items, i + 1, prs)
             ELSE IF item.labels.k = "null" THEN FetchRaise("TypeError")
             ELSE IF item.html_url.k = "absent" THEN FetchRaise("KeyError")
             ELSE FilterItems(items, i + 1, Append(prs, PrOf(item)))

\* (mutant) raise_for_status(): a non-200 answer raises
_fetch_merged_prs_RaiseForStatus(o) ==
    IF o.exc THEN FetchRaise("ConnectionError")
    ELSE IF o.status # 200 THEN FetchRaise("HTTPError")
    ELSE IF o.body.shape # "list" THEN FetchRaise("TypeError")
    ELSE FilterItems(o.body.items, 1, <<>>)

\* Lines 119-136
_fetch_merged_prs(o) ==
    IF o.exc THEN FetchRaise("ConnectionError")
    ELSE IF o.status # 200 THEN FetchOk(<<>>)
    ELSE IF o.body.shape # "list" THEN FetchRaise("TypeError")  \* for item in None
    ELSE FilterItems(o.body.items, 1, <<>>)

----------------------------------------------------------------------------
(* github_tool.py: get_release_prs *)

BUG_KEYWORDS == << <<"b","u","g">>, <<"f","i","x">>,
                   <<"d","e","f","e","c","t">>, <<"h","o","t","f","i","x">> >>
ENHANCEMENT_KEYWORDS == << <<"f","e","a","t","u","r","e">>,
                           <<"e","n","h","a","n","c","e","m","e","n","t">>,
                           <<"n","e","w">>, <<"f","e","a","t">> >>

\* The keys of `summary`, in insertion order
Categories == <<"Bug Fixes", "Enhancements/Features", "Other Changes">>

\* (mutant) the enhancement rule is tried first
Bucket_EnhancementFirst(pr) ==
    LET title_lower == Lower(pr.title)
        labels_lower == [i \in 1..Len(pr.labels) |-> Lower(pr.labels[i])]
    IN  IF AnyIn(ENHANCEMENT_KEYWORDS, labels_lower)
           \/ StartsWith(title_lower, <<"f","e","a","t">>)
        THEN 2
        ELSE IF AnyIn(BUG_KEYWORDS, labels_lower)
                \/ StartsWith(title_lower, <<"f","i","x">>)
        THEN 1
        ELSE 3

\* Lines 178-186: the index in Categories of the bucket a PR is appended to
Bucket(pr) ==
    LET title_lower == Lower(pr.title)
        labels_lower == [i \in 1..Len(pr.labels) |-> Lower(pr.labels[i])]
    IN  IF AnyIn(BUG_KEYWORDS, labels_lower)
           \/ StartsWith(title_lower, <<"f","i","x">>)
        THEN 1
        ELSE IF AnyIn(ENHANCEMENT_KEYWORDS, labels_lower)
                \/ StartsWith(title_lower, <<"f","e","a","t">>)
        THEN 2
        ELSE 3

\* f"#{pr['number']}: {pr['title']}"
PrLine(pr) == <<"#">> \o IntToStr(pr.number) \o <<": ">> \o pr.title

EmptySummary == [c \in 1..Len(Categories) |-> <<>>]

\* Lines 168-186: the loop that fills `summary`
RECURSIVE Categorize(_, _, _)
Categorize(all_prs, i, summary) ==
    IF i > Len(all_prs) THEN summary
    ELSE LET b == Bucket(all_prs[i])
         IN  Categorize(all_prs, i + 1,
                        [summary EXCEPT ![b] = Append(@, PrLine(all_prs[i]))])

\* f"\n--- {category} ({len(items)}) ---"
SectionHeader(category, n) ==
    <<NL, "--- ", category, " (">> \o IntToStr(n) \o <<") ---">>

\* (mutant) the loop over the buckets stops one short
RECURSIVE Sections_StopsShort(_, _)
Sections_StopsShort(summary, c) ==
    IF c >= Len(Categories) THEN <<>>
    ELSE (IF Len(summary[c]) > 0
          THEN <<SectionHeader(Categories[c], Len(summary[c]))>> \o summary[c]
          ELSE <<>>)
         \o Sections_StopsShort(summary, c + 1)

\* Lines 194-197: one header and the items of every non-empty bucket
RECURSIVE Sections(_, _)
Sections(summary, c) ==
    IF c > Len(Categories) THEN <<>>
    ELSE (IF Len(summary[c]) > 0
          THEN <<SectionHeader(Categories[c], Len(summary[c]))>> \o summary[c]
          ELSE <<>>)
         \o Sections(summary, c + 1)

\* Lines 189-199
OutputParts(all_prs) ==
    << P_SUCCESS \o <<" Analysis for ", ORG, "/", REPO, " release ",
                      BT, TAG_NAME, BT, ":">>,
       <<"Total Relevant PRs Found: ">> \o IntToStr(Len(all_prs)) >>
    \o Sections(Categorize(all_prs, 1, EmptySummary), 1)

\* release_data.get('published_at', datetime.now().isoformat())
SinceOf(release_data) ==
    CASE release_data.published_at.k = "absent" -> "now"
      [] release_data.published_at.k = "null" -> "None"
      [] OTHER -> release_data.published_at.v

IssuesParams(since) == [since |-> since, per_page |-> PER_PAGE]

\* (mutant) only a missing tag is treated as a failed lookup
TagLookupFailed_Only404(rel) == rel.status = 404

\* Line 149
TagLookupFailed(rel) == rel.status # 200

\* Lines 145-199.  rel is what the tagged-release endpoint answers, iss what
\* the issues endpoint answers if it is asked.
get_release_prs(rel, iss) ==
    LET h1 == <<Exchange("releases/tags", NoParams, rel)>>
    IN  IF rel.exc THEN RaiseH("ConnectionError", h1)    \* outside the try
        ELSE IF TagLookupFailed(rel)
        THEN ReturnH(P_ERROR \o <<" Could not find release tag ", BT, TAG_NAME, BT,
                                  " for categorization. Status: ">>
                             \o IntToStr(rel.status) \o <<".">>, h1)
        ELSE IF rel.body.shape # "object"
        THEN RaiseH("AttributeError", h1)                \* release_data.get
        ELSE
        LET h2 == Append(h1, Exchange("issues", IssuesParams(SinceOf(rel.body)), iss))
            f == _fetch_merged_prs(iss)
        IN  IF f.raised
            THEN ReturnH(P_TOOL_ERROR \o <<" Failed to fetch PRs for release. Error: ",
                                           f.exc>>, h2)
            ELSE IF Len(f.prs) = 0
            THEN ReturnH(P_SUCCESS \o <<" Found no recently merged Pull Requests",
                                        " for release ", BT, TAG_NAME, BT, ".">>, h2)
            ELSE ReturnH(Join(OutputParts(f.prs), NL), h2)

----------------------------------------------------------------------------
(* app.py: the tool registry *)

AVAILABLE_TOOLS == {"check_latest_release", "get_dependency_file", "get_release_prs"}

\* The keyword parameters of each registered function
Params(name) ==
    CASE name = "check_latest_release" -> {"org_name", "repo_name"}
      [] name = "get_dependency_file" -> {"org_name", "repo_name", "file_path"}
      [] name = "get_release_prs" -> {"org_name", "repo_name", "tag_name"}

FunctionCall(name, args) == [name |-> name, args |-> args]

\* Line 131: AVAILABLE_TOOLS[function_name](**args), for every answer the
\* host may give (L: latest release, D: contents, T: tagged release, I: issues).
\* A keyword set that does not bind to the signature is a TypeError.
Invocations(call, L, D, T, I) ==
    IF call.args # Params(call.name) THEN {RaiseH("TypeError", <<>>)}
    ELSE CASE call.name = "check_latest_release" ->
                {check_latest_release(o) : o \in L}
           [] call.name = "get_dependency_file" ->
                {get_dependency_file(o) : o \in D}
           [] call.name = "get_release_prs" ->
                {get_release_prs(rel, iss) : rel \in T, iss \in I}

\* types.Part.from_function_response(name=..., response={key: payload})
Part(name, key, payload) == [name |-> name, key |-> key, payload |-> payload]

\* f"Function {function_name} not found."
NotFoundMessage(name) == <<"Function ", name, " not found.">>

----------------------------------------------------------------------------
(* app.py: run_agent_streamlit and handle_tool_call *)

\* What the model session has been sent this turn: the number of
\* send_message calls, and of the latest one the number of parts and of
\* error-tagged parts (batch = -1: the latest message is the user's prompt)
NothingSent == [count |-> 0, batch |-> -1, errors |-> 0]

ErrorParts(batch) == Cardinality({i \in 1..Len(batch) : batch[i].key = "error"})

Init ==
    /\ pc = "idle"
    /\ function_calls = <<>>
    /\ idx = 1
    /\ tool_results = <<>>
    /\ trace = <<>>
    /\ sent = NothingSent
    /\ rounds = 0
    /\ gemini_calls = 0
    /\ turns = 0
    /\ raised_by = <<>>

\* Lines 241-250: a prompt arrives, the counter is bumped, the prompt is sent
\* and the model answers with the function calls fc.  Responses is what the
\* model may answer.
UserPrompt(Responses) ==
    /\ pc \in {"idle", "done", "raised"}
    /\ turns < MaxTurns
    /\ \E fc \in Responses :
        /\ function_calls' = fc
        /\ pc' = "while"
    /\ turns' = turns + 1
    /\ gemini_calls' = gemini_calls + 1
    /\ sent' = [count |-> 1, batch |-> -1, errors |-> 0]
    /\ rounds' = 0
    /\ idx' = 1
    /\ tool_results' = <<>>
    /\ trace' = <<>>
    /\ raised_by' = <<>>

\* Lines 118-121: the while test succeeds and a new batch is started
EnterRound ==
    /\ pc = "while"
    /\ Len(function_calls) > 0
    /\ tool_results' = <<>>
    /\ trace' = <<>>
    /\ idx' = 1
    /\ pc' = "for"
    /\ UNCHANGED <<function_calls, sent, rounds, gemini_calls, turns, raised_by>>

\* Lines 129-137: one iteration of the for loop on a registered name
ExecuteTool(L, D, T, I) ==
    /\ pc = "for"
    /\ idx <= Len(function_calls)
    /\ function_calls[idx].name \in AVAILABLE_TOOLS
    /\ \E r \in Invocations(function_calls[idx], L, D, T, I) :
        IF r.raised
        THEN /\ pc' = "raised"
             /\ raised_by' = r.http
             /\ UNCHANGED <<tool_results, trace, idx>>
        ELSE /\ tool_results' =
                    Append(tool_results,
                           Part(function_calls[idx].name, "output", r.value))
             /\ trace' = Append(trace, r.http)
             /\ idx' = idx + 1
             /\ UNCHANGED <<pc, raised_by>>
    /\ UNCHANGED <<function_calls, sent, rounds, gemini_calls, turns>>

\* (mutant) the registry is indexed without the membership test: KeyError
ToolNotFound_KeyError ==
    /\ pc = "for"
    /\ idx <= Len(function_calls)
    /\ function_calls[idx].name \notin AVAILABLE_TOOLS
    /\ pc' = "raised"
    /\ raised_by' = <<>>
    /\ UNCHANGED <<function_calls, idx, tool_results, trace, sent, rounds,
                   gemini_calls, turns>>

\* Lines 138-144: one iteration of the for loop on an unregistered name
ToolNotFound ==
    /\ pc = "for"
    /\ idx <= Len(function_calls)
    /\ function_calls[idx].name \notin AVAILABLE_TOOLS
    /\ tool_results' =
            Append(tool_results,
                   Part(function_calls[idx].name, "error",
                        NotFoundMessage(function_calls[idx].name)))
    /\ trace' = Append(trace, <<>>)
    /\ idx' = idx + 1
    /\ UNCHANGED <<pc, function_calls, sent, rounds, gemini_calls, turns, raised_by>>

\* Lines 146-148: once the for loop is over (ready), the counter is bumped,
\* the batch is sent and the model answers with the function calls fc.
\* After MaxRounds rounds the model answers with text alone.
SendBatch(ready, Responses) ==
    /\ pc = "for"
    /\ ready
    /\ gemini_calls' = gemini_calls + 1
    /\ sent' = [count |-> sent.count + 1,
                batch |-> Len(tool_results),
                errors |-> ErrorParts(tool_results)]
    /\ rounds' = rounds + 1
    /\ \E fc \in Responses :
        /\ rounds + 1 >= MaxRounds => fc = <<>>
        /\ function_calls' = fc
    /\ pc' = "while"
    /\ tool_results' = <<>>    \* rebound at line 121 before it is read again
    /\ trace' = <<>>
    /\ idx' = 1
    /\ UNCHANGED <<turns, raised_by>>

\* (mutant) send_message inside the for loop: the batch leaves after the
\* first result
SendResults_InsideLoop(Responses) == SendBatch(idx > 1, Responses)

SendResults(Responses) == SendBatch(idx > Len(function_calls), Responses)

\* Lines 118, 150-153: once the while test fails (finished), the counter is
\* bumped and the response is returned
ReturnWhen(finished) ==
    /\ pc = "while"
    /\ finished
    /\ gemini_calls' = gemini_calls + 1
    /\ pc' = "done"
    /\ UNCHANGED <<function_calls, idx, tool_results, trace, sent, rounds,
                   turns, raised_by>>

\* (mutant) `if` for `while`: one round at most, then the response is
\* returned whatever it carries
ReturnFinal_AfterOneRound == ReturnWhen(Len(function_calls) = 0 \/ rounds >= 1)

ReturnFinal == ReturnWhen(Len(function_calls) = 0)

----------------------------------------------------------------------------
(* The GitHub API: what each endpoint may answer *)

ReleaseJson(shape, tag_name, published_at, html_url, body) ==
    [shape |-> shape, tag_name |-> tag_name, published_at |-> published_at,
     html_url |-> html_url, body |-> body]

GoodRelease ==
    ReleaseJson("object", Val(TAG_NAME), Val("2024-04-10T12:00:00Z"),
                Val("https://github.com/hashicorp/vault/releases/tag/v1.16.0"),
                Val(<<"I","m","p","r","o","v","e","d",NL,"a","u","t","h">>))

\* An object with none of the members the tools read
BareRelease ==
    ReleaseJson("object", Absent(""), Absent(""), Absent(""), Absent(<<>>))

\* A release published without notes: "body": null
NoNotesRelease == [GoodRelease EXCEPT !.body = Null(<<>>)]

\* A release without a publication time: "published_at": null
UnpublishedRelease == [GoodRelease EXCEPT !.published_at = Null("")]

MalformedDateRelease == [GoodRelease EXCEPT !.published_at = Val("10 April 2024")]

\* The JSON document null
NullRelease == [BareRelease EXCEPT !.shape = "null"]

ReleaseBodies ==
    {GoodRelease, BareRelease, NoNotesRelease, UnpublishedRelease,
     MalformedDateRelease, NullRelease}

ErrorStatuses == {404, 403, 500}

\* Every class of answer of the latest-release endpoint
AllLatestOutcomes ==
    {TransportFailure(BareRelease)}
    \cup {Response(st, BareRelease) : st \in ErrorStatuses}
    \cup {Response(200, b) : b \in ReleaseBodies}

\* Every class of answer of the tagged-release endpoint
AllTagOutcomes ==
    {TransportFailure(BareRelease)}
    \cup {Response(st, BareRelease) : st \in ErrorStatuses}
    \cup {Response(200, b) : b \in {GoodRelease, BareRelease, NullRelease}}

CHARS == {"a", NL}

RECURSIVE SeqsUpTo(_, _)
SeqsUpTo(S, n) ==
    IF n = 0 THEN {<<>>}
    ELSE LET shorter == SeqsUpTo(S, n - 1)
         IN  shorter \cup {Append(q, x) : q \in shorter, x \in S}

\* Every class of answer of the contents endpoint; the files are all the
\* texts of up to MaxContentLen characters
AllContentsOutcomes ==
    {TransportFailure(<<>>)}
    \cup {Response(st, <<>>) : st \in ErrorStatuses}
    \cup {Response(200, c) : c \in SeqsUpTo(CHARS, MaxContentLen)}

PullRequestMarker(merged_at) == [merged_at |-> merged_at]

Item(number, title, labels, pull_request, html_url) ==
    [number |-> number, title |-> title, labels |-> labels,
     pull_request |-> pull_request, html_url |-> html_url]

Merged == Val(PullRequestMarker(Val("2024-04-09T08:00:00Z")))
ClosedUnmerged == Val(PullRequestMarker(Null("")))
NoMarker == Absent(PullRequestMarker(Absent("")))
NullMarker == Null(PullRequestMarker(Absent("")))

L_bug == <<"b","u","g">>
L_Bug == <<"B","u","g">>
L_Feature == <<"F","e","a","t","u","r","e">>
L_bugfix == <<"b","u","g","f","i","x">>
L_HOTFIX == <<"H","O","T","F","I","X">>
L_new == <<"n","e","w">>
L_docs == <<"d","o","c","s">>

T_Fix == <<"F","i","x"," ","n","p","e">>
T_feat == <<"f","e","a","t",":"," ","u","i">>
T_Update == <<"U","p","d","a","t","e">>
T_Refix == <<"R","e","f","i","x">>

Url == Val("https://github.com/hashicorp/vault/pull/1")

IssuesJson(shape, items) == [shape |-> shape, items |-> items]

\* The items an issues page may carry: merged pull requests matching the
\* rules by title, by label, by both or by neither, and items that are not
\* merged pull requests or lack a member
Items ==
    {Item(5, T_Fix, Val(<<>>), Merged, Url),
     Item(12, T_feat, Val(<<>>), Merged, Url),
     Item(7, T_Update, Val(<<>>), Merged, Url),
     Item(7, T_Update, Val(<<L_Bug, L_Feature>>), Merged, Url),
     Item(12, T_feat, Val(<<L_bugfix>>), Merged, Url),
     Item(5, T_Fix, Val(<<L_new>>), Merged, Url),
     Item(101, T_Refix, Val(<<L_docs, L_HOTFIX>>), Merged, Url),
     Item(101, T_Refix, Absent(<<>>), Merged, Url),
     Item(7, T_Update, Val(<<L_new>>), Merged, Url),
     Item(8, T_Fix, Val(<<L_bug>>), ClosedUnmerged, Url),
     Item(8, T_Fix, Val(<<L_bug>>), NoMarker, Url),
     Item(8, T_Fix, Val(<<L_bug>>), NullMarker, Url),
     Item(9, T_Update, Val(<<>>), Merged, Absent(""))}

\* Every class of answer of the issues endpoint; the pages are all the lists
\* of up to MaxItems items
AllIssuesOutcomes ==
    {TransportFailure(IssuesJson("list", <<>>))}
    \cup {Response(st, IssuesJson("list", <<>>)) : st \in ErrorStatuses}
    \cup {Response(200, IssuesJson("null", <<>>))}
    \cup {Response(200, IssuesJson("list", page)) : page \in SeqsUpTo(Items, MaxItems)}

\* The calls a model response may carry: each tool with the arguments its
\* declaration requires, one tool with an argument missing, one unknown name
ToolCalls == {FunctionCall(n, Params(n)) : n \in AVAILABLE_TOOLS}

Calls ==
    ToolCalls
    \cup {FunctionCall("check_latest_release", {"org_name"}),
          FunctionCall("delete_repository", {"org_name", "repo_name"})}

ModelResponses == SeqsUpTo(Calls, MaxCalls)

\* The answers the orchestration runs draw from: one success and one failure
\* of each kind per endpoint
LatestOutcomes ==
    {Response(200, GoodRelease), Response(200, NoNotesRelease),
     Response(404, BareRelease)}

GoMod == <<"m","o","d",NL,NL,"g","o",NL>>

ContentsOutcomes == {Response(200, GoMod), TransportFailure(<<>>)}

TagOutcomes == {Response(200, GoodRelease), TransportFailure(BareRelease)}

IssuesOutcomes ==
    {Response(200, IssuesJson("list",
        <<Item(5, T_Fix, Val(<<L_Feature>>), Merged, Url)>>)),
     Response(403, IssuesJson("list", <<>>))}

\* The agent: any responses, a few answers per endpoint
Next ==
    \/ UserPrompt(ModelResponses)
    \/ EnterRound
    \/ ExecuteTool(LatestOutcomes, ContentsOutcomes, TagOutcomes, IssuesOutcomes)
    \/ ToolNotFound
    \/ SendResults(ModelResponses)
    \/ ReturnFinal

Spec == Init /\ [][Next]_vars

\* One tool call per turn, against every answer of every endpoint
SingleCalls == {<<c>> : c \in ToolCalls}

NextTools ==
    \/ UserPrompt(SingleCalls)
    \/ EnterRound
    \/ ExecuteTool(AllLatestOutcomes, AllContentsOutcomes, AllTagOutcomes,
                   AllIssuesOutcomes)
    \/ SendResults({<<>>})
    \/ ReturnFinal

SpecTools == Init /\ [][NextTools]_vars

----------------------------------------------------------------------------
(* Properties of the function-calling loop *)

\* C1: no error crosses the tool boundary as a raised exception: whatever
\* the HTTP calls of a registered tool answer, the call made by
\* handle_tool_call returns and the loop goes on to the next request.
C1_NoToolCallRaises == pc # "raised"

\* C2: no partial batches.  While the for loop runs, tool_results holds
\* exactly one entry per request already visited, in order and under the
\* request's name; the only step that sends a batch is taken after the last
\* request, sends one message whose length is the number of requests, and
\* no new model response is received by any other step of the round.
C2_NoPartialBatches ==
    [][ /\ pc' = "for" =>
              /\ Len(tool_results') = idx' - 1
              /\ idx' <= Len(function_calls') + 1
              /\ \A i \in 1..Len(tool_results') :
                    tool_results'[i].name = function_calls'[i].name
        /\ (pc = "for" /\ sent' # sent) =>
              /\ idx = Len(function_calls) + 1
              /\ Len(tool_results) = Len(function_calls)
              /\ sent'.count = sent.count + 1
              /\ sent'.batch = Len(function_calls)
        /\ (pc = "for" /\ sent' = sent) => function_calls' = function_calls
      ]_vars

\* C2 witness: a batch of two results has been sent for a round of two requests
C2_Witness == pc = "while" /\ rounds >= 1 /\ sent.batch = 2

\* C3: handle_tool_call returns exactly on a response with no function
\* calls: it returns only from the loop test with function_calls empty,
\* sending nothing and keeping that response; on such a response it does
\* nothing else; on a response with calls it never returns.
C3_DoneIffNoCalls ==
    [][ /\ pc' = "done" =>
              /\ pc = "while"
              /\ Len(function_calls) = 0
              /\ sent' = sent
              /\ function_calls' = function_calls
        /\ (pc = "while" /\ Len(function_calls) = 0) => pc' = "done"
        /\ (pc = "while" /\ Len(function_calls) > 0) => pc' = "for"
        /\ (pc = "for") => pc' # "done"
      ]_vars

\* C3 witness: the loop has returned after two tool rounds
C3_Witness == pc = "done" /\ rounds = 2 /\ sent.count = 3

\* C4: an unregistered name does not halt the loop: its iteration runs no
\* tool (no HTTP exchange), appends an error-tagged result under that name
\* and moves on to the next request; the batch that is sent carries one
\* entry per request, the error-tagged ones included.
C4_UnknownToolIsAResult ==
    [][ /\ ( /\ pc = "for"
             /\ idx <= Len(function_calls)
             /\ function_calls[idx].name \notin AVAILABLE_TOOLS ) =>
              /\ pc' = "for"
              /\ idx' = idx + 1
              /\ Len(tool_results') = Len(tool_results) + 1
              /\ SubSeq(tool_results', 1, Len(tool_results)) = tool_results
              /\ tool_results'[idx].name = function_calls[idx].name
              /\ tool_results'[idx].key = "error"
              /\ InList(function_calls[idx].name, tool_results'[idx].payload)
              /\ trace'[idx] = <<>>
        /\ (pc = "for" /\ pc' = "while") =>
              /\ sent'.batch = Len(function_calls)
              /\ sent'.errors =
                    Cardinality({i \in 1..Len(function_calls) :
                                    function_calls[i].name \notin AVAILABLE_TOOLS})
      ]_vars

\* C4 witness: a batch of two was sent in which exactly one part is the
\* error-tagged result of an unregistered name
C4_Witness == pc = "while" /\ sent.batch = 2 /\ sent.errors = 1

----------------------------------------------------------------------------
(* Reading a tool result back: the vocabulary of the tool properties *)

HasStatusPrefix(v) ==
    StartsWith(v, P_SUCCESS) \/ StartsWith(v, P_ERROR) \/ StartsWith(v, P_TOOL_ERROR)

Answered200(e) == ~e.outcome.exc /\ e.outcome.status = 200

\* The entries of the batch that are outputs of the tool `name`
OutputsOf(name) ==
    {i \in 1..Len(tool_results) :
        tool_results[i].name = name /\ tool_results[i].key = "output"}

Outputs == {i \in 1..Len(tool_results) : tool_results[i].key = "output"}

\* int(s) for a string of digits
RECURSIVE StrToInt(_)
StrToInt(ds) ==
    IF Len(ds) = 0 THEN 0
    ELSE 10 * StrToInt(SubSeq(ds, 1, Len(ds) - 1))
         + (CHOOSE d \in 0..9 : DigitChars[d + 1] = ds[Len(ds)])

Count(x, xs) == Cardinality({i \in 1..Len(xs) : xs[i] = x})

RECURSIVE Sum(_)
Sum(ns) == IF Len(ns) = 0 THEN 0 ELSE ns[1] + Sum(Tail(ns))

IsHeaderLine(line) == Len(line) > 0 /\ line[1] = "--- "
IsItemLine(line) == Len(line) > 0 /\ line[1] = "#"
IsTotalLine(line) == Len(line) > 0 /\ line[1] = "Total Relevant PRs Found: "

\* The number printed in a section header "--- <category> (<n>) ---"
HeaderCount(line) == StrToInt(SubSeq(line, 4, Len(line) - 1))

\* The number printed on the "Total Relevant PRs Found" line
ReportedTotal(lines) ==
    StrToInt(Tail(lines[CHOOSE k \in 1..Len(lines) : IsTotalLine(lines[k])]))

\* The category of the last section header above line k ("" if none)
SectionOf(lines, k) ==
    LET hs == {h \in 1..(k - 1) : IsHeaderLine(lines[h])}
    IN  IF hs = {} THEN ""
        ELSE lines[CHOOSE h \in hs : \A g \in hs : g <= h][2]

\* The item lines printed under the header of `category`, in order
ItemsUnder(lines, category) ==
    LET Under(k) == IsItemLine(lines[k]) /\ SectionOf(lines, k) = category
        ks == SelectSeq([k \in 1..Len(lines) |-> k], Under)
    IN  [j \in 1..Len(ks) |-> lines[ks[j]]]

Headers(lines) == SelectSeq(lines, IsHeaderLine)

\* An item of the issues page that is a merged pull request
Eligible(item) ==
    item.pull_request.k = "val" /\ item.pull_request.v.merged_at.k = "val"

\* A page every item of which the loop of _fetch_merged_prs gets through
Readable(page) ==
    \A k \in 1..Len(page) :
        /\ page[k].pull_request.k # "null"
        /\ Eligible(page[k]) =>
              page[k].html_url.k # "absent" /\ page[k].labels.k # "null"

\* A call of get_release_prs that got a readable page with an eligible item
Analysed(http) ==
    /\ Len(http) = 2
    /\ http[2].endpoint = "issues"
    /\ Answered200(http[2])
    /\ http[2].outcome.body.shape = "list"
    /\ Readable(http[2].outcome.body.items)
    /\ \E k \in 1..Len(http[2].outcome.body.items) :
            Eligible(http[2].outcome.body.items[k])

PageOf(http) == http[2].outcome.body.items

LabelsOf(item) == IF item.labels.k = "val" THEN item.labels.v ELSE <<>>

\* The rules as the specification words them
MatchesBugRule(item) ==
    \/ \E i \in 1..Len(LabelsOf(item)) :
          Lower(LabelsOf(item)[i]) \in
            {<<"b","u","g">>, <<"f","i","x">>, <<"d","e","f","e","c","t">>,
             <<"h","o","t","f","i","x">>}
    \/ StartsWith(Lower(item.title), <<"f","i","x">>)

MatchesEnhancementRule(item) ==
    \/ \E i \in 1..Len(LabelsOf(item)) :
          Lower(LabelsOf(item)[i]) \in
            {<<"f","e","a","t","u","r","e">>,
             <<"e","n","h","a","n","c","e","m","e","n","t">>,
             <<"n","e","w">>, <<"f","e","a","t">>}
    \/ StartsWith(Lower(item.title), <<"f","e","a","t">>)

RuleCategory(item) ==
    IF MatchesBugRule(item) THEN "Bug Fixes"
    ELSE IF MatchesEnhancementRule(item) THEN "Enhancements/Features"
    ELSE "Other Changes"

\* "#<number>: <title>" of the eligible items of the page the rules put in
\* `category`, in page order
ExpectedUnder(page, category) ==
    LET Wanted(item) == Eligible(item) /\ RuleCategory(item) = category
        chosen == SelectSeq(page, Wanted)
    IN  [j \in 1..Len(chosen) |->
            <<"#">> \o IntToStr(chosen[j].number) \o <<": ">> \o chosen[j].title]

EligibleCount(page) == Cardinality({k \in 1..Len(page) : Eligible(page[k])})

\* The report "found no recently merged Pull Requests": a single SUCCESS
\* line without sections
IsNoPrReport(v) ==
    /\ StartsWith(v, P_SUCCESS)
    /\ InList(" Found no recently merged Pull Requests", v)
    /\ ~InList(NL, v)
    /\ ~InList("--- ", v)

----------------------------------------------------------------------------
(* Properties of the tools *)

\* C5 (as claimed): every string a tool returns begins with SUCCESS:, ERROR:
\* or TOOL_ERROR:, and SUCCESS: is returned only when every HTTP response of
\* the call had status 200.
C5_SuccessOnlyOnAll200 ==
    \A i \in Outputs :
        /\ HasStatusPrefix(tool_results[i].payload)
        /\ StartsWith(tool_results[i].payload, P_SUCCESS) =>
              \A k \in 1..Len(trace[i]) : Answered200(trace[i][k])

\* C5 (amended): every string a tool returns begins with SUCCESS:, ERROR: or
\* TOOL_ERROR:, and SUCCESS: is returned only when every HTTP call of the
\* invocation was answered with status 200, except that a non-200 answer of
\* the issues lookup of get_release_prs yields the SUCCESS: report of no
\* recently merged pull requests.
C5_StatusPrefix ==
    \A i \in Outputs :
        /\ HasStatusPrefix(tool_results[i].payload)
        /\ StartsWith(tool_results[i].payload, P_SUCCESS) =>
              \A k \in 1..Len(trace[i]) :
                 /\ ~trace[i][k].outcome.exc
                 /\ \/ trace[i][k].outcome.status = 200
                    \/ /\ trace[i][k].endpoint = "issues"
                       /\ IsNoPrReport(tool_results[i].payload)

\* C5 witness: get_release_prs returned SUCCESS: although the issues
\* endpoint answered 403
C5_Witness ==
    \E i \in OutputsOf("get_release_prs") :
        /\ StartsWith(tool_results[i].payload, P_SUCCESS)
        /\ Len(trace[i]) = 2
        /\ trace[i][2].outcome.status = 403

\* C6: categorization is total, exclusive and bug-first: in every analysis
\* report, the items printed under each of the three headers are exactly
\* the eligible pull requests of the page that the rules (bug rule first,
\* then the enhancement rule, else other) put in that bucket, in page order.
C6_CategorizationByPrecedence ==
    \A i \in OutputsOf("get_release_prs") :
        Analysed(trace[i]) =>
            LET lines == Split(tool_results[i].payload, NL)
            IN  /\ \A c \in 1..Len(Categories) :
                      ItemsUnder(lines, Categories[c])
                        = ExpectedUnder(PageOf(trace[i]), Categories[c])
                /\ ItemsUnder(lines, "") = <<>>

\* C6 witness: a report on a page of three eligible pull requests, one of
\* which matches both rules and is printed under Bug Fixes
C6_Witness ==
    \E i \in OutputsOf("get_release_prs") :
        /\ Analysed(trace[i])
        /\ EligibleCount(PageOf(trace[i])) = 3
        /\ \E k \in 1..3 :
              /\ MatchesBugRule(PageOf(trace[i])[k])
              /\ MatchesEnhancementRule(PageOf(trace[i])[k])
        /\ \A c \in 1..Len(Categories) :
              Len(ItemsUnder(Split(tool_results[i].payload, NL), Categories[c])) = 1

\* C7: in every analysis report the number on the total line equals the
\* number of eligible pull requests, the number of items printed under the
\* three headers together, and the sum of the counts printed in the
\* headers; each header prints the number of items under it, and a header
\* is printed only for a non-empty bucket.
C7_TotalIsSumOfBuckets ==
    \A i \in OutputsOf("get_release_prs") :
        Analysed(trace[i]) =>
            LET lines == Split(tool_results[i].payload, NL)
                hs == Headers(lines)
            IN  /\ ReportedTotal(lines) = EligibleCount(PageOf(trace[i]))
                /\ ReportedTotal(lines) =
                     Sum([c \in 1..Len(Categories) |->
                            Len(ItemsUnder(lines, Categories[c]))])
                /\ ReportedTotal(lines) =
                     Sum([h \in 1..Len(hs) |-> HeaderCount(hs[h])])
                /\ \A h \in 1..Len(hs) :
                      /\ HeaderCount(hs[h]) = Len(ItemsUnder(lines, hs[h][2]))
                      /\ HeaderCount(hs[h]) > 0

\* C7 witness: a report whose total is 3, printed in two sections, the third
\* bucket being empty
C7_Witness ==
    \E i \in OutputsOf("get_release_prs") :
        /\ Analysed(trace[i])
        /\ ReportedTotal(Split(tool_results[i].payload, NL)) = 3
        /\ Len(Headers(Split(tool_results[i].payload, NL))) = 2

\* The shape of the HTTP exchanges of one call of get_release_prs
FailsFast(http) ==
    (Len(http) > 0 /\ http[1].endpoint = "releases/tags") =>
        /\ \A k \in 1..Len(http) :
              http[k].endpoint = "issues" => (k = 2 /\ Answered200(http[1]))
        /\ (~http[1].outcome.exc /\ http[1].outcome.status # 200) => Len(http) = 1

\* C8: get_release_prs fails fast on the tag lookup: a non-200 answer of the
\* tagged-release endpoint gives a result beginning with ERROR:, raises
\* nothing and asks nothing of the issues endpoint, which is asked only
\* after the tagged release was answered with 200.
C8_TagLookupFailsFast ==
    /\ FailsFast(raised_by)
    /\ \A i \in 1..Len(trace) : FailsFast(trace[i])
    /\ \A i \in OutputsOf("get_release_prs") :
          (~trace[i][1].outcome.exc /\ trace[i][1].outcome.status # 200) =>
              StartsWith(tool_results[i].payload, P_ERROR)
    /\ (pc = "raised" /\ Len(raised_by) > 0
          /\ raised_by[1].endpoint = "releases/tags") =>
              (raised_by[1].outcome.exc \/ raised_by[1].outcome.status = 200)

\* C8 witness: the tag was answered 404 and the result is an ERROR: string
\* after a single request
C8_Witness ==
    \E i \in OutputsOf("get_release_prs") :
        /\ trace[i][1].outcome.status = 404
        /\ Len(trace[i]) = 1
        /\ StartsWith(tool_results[i].payload, P_ERROR)

\* What _fetch_merged_prs makes of the answer of an issues request
FetchesMergedOnly(http) ==
    \A k \in 1..Len(http) :
        http[k].endpoint = "issues" =>
            LET o == http[k].outcome
                f == _fetch_merged_prs(o)
                page == o.body.items
                merged == SelectSeq(page, Eligible)
            IN  /\ (~o.exc /\ o.status # 200) => (~f.raised /\ f.prs = <<>>)
                /\ (~o.exc /\ o.status = 200 /\ ~f.raised) =>
                      /\ Len(f.prs) = Len(merged)
                      /\ \A j \in 1..Len(f.prs) :
                            /\ f.prs[j].number = merged[j].number
                            /\ f.prs[j].title = merged[j].title

\* C9: _fetch_merged_prs returns the empty list, not an error, on a non-200
\* answer, and otherwise only the items with a pull_request marker and a
\* merged_at value; whenever the candidate list is empty, for either
\* reason, get_release_prs returns the SUCCESS: report of no recently
\* merged pull requests, without sections.
C9_EmptyCandidatesReport ==
    /\ FetchesMergedOnly(raised_by)
    /\ \A i \in 1..Len(trace) : FetchesMergedOnly(trace[i])
    /\ \A i \in OutputsOf("get_release_prs") :
          ( /\ Len(trace[i]) = 2
            /\ ~trace[i][2].outcome.exc
            /\ \/ trace[i][2].outcome.status # 200
               \/ /\ trace[i][2].outcome.body.shape = "list"
                  /\ Readable(PageOf(trace[i]))
                  /\ EligibleCount(PageOf(trace[i])) = 0 ) =>
              IsNoPrReport(tool_results[i].payload)

\* C9 witness: the issues endpoint answered 500 and the result is the
\* report of no recently merged pull requests
C9_Witness ==
    \E i \in OutputsOf("get_release_prs") :
        /\ Len(trace[i]) = 2
        /\ trace[i][2].outcome.status = 500
        /\ IsNoPrReport(tool_results[i].payload)

\* C9 second case, reachable too: a page of items none of which is a merged
\* pull request
C9_EmptyPageReached ==
    \E i \in OutputsOf("get_release_prs") :
        /\ Len(trace[i]) = 2
        /\ Answered200(trace[i][2])
        /\ Len(PageOf(trace[i])) = 2
        /\ IsNoPrReport(tool_results[i].payload)

\* The text between the opening fence line and the closing fence line
FencedText(v) ==
    LET open == CHOOSE k \in 1..Len(v) : v[k] = FENCE
    IN  SubSeq(v, open + 2, Len(v) - 2)

\* C10: on a 200 answer get_dependency_file returns SUCCESS:, a header, and
\* in a fenced block the first min(10, n) lines of the file (n its number
\* of lines), in order and newline-joined: the snippet is the file itself
\* when n <= 10, and else the file up to, not including, its tenth line
\* break.
C10_FirstTenLines ==
    \A i \in OutputsOf("get_dependency_file") :
        Answered200(trace[i][1]) =>
            LET v == tool_results[i].payload
                content == trace[i][1].outcome.body
                n == Count(NL, content) + 1
                snippet == FencedText(v)
            IN  /\ StartsWith(v, P_SUCCESS)
                /\ Count(FENCE, v) = 2
                /\ SubSeq(v, Len(v) - 1, Len(v)) = <<NL, FENCE>>
                /\ Count(NL, snippet) + 1 = Min(10, n)
                /\ StartsWith(content, snippet)
                /\ n <= 10 => snippet = content
                /\ n > 10 => content[Len(snippet) + 1] = NL

\* C10 witness: a file of more than ten lines was cut to ten
C10_Witness ==
    \E i \in OutputsOf("get_dependency_file") :
        /\ Answered200(trace[i][1])
        /\ Count(NL, trace[i][1].outcome.body) >= 10
        /\ Count(NL, FencedText(tool_results[i].payload)) = 9

----------------------------------------------------------------------------
(* Requests per invocation *)

\* The HTTP requests one invocation of the tool `name` may make
RequestsWithinLimit(name, http) ==
    /\ \A j, k \in 1..Len(http) : j # k => http[j].endpoint # http[k].endpoint
    /\ name = "check_latest_release" =>
          Len(http) = 1 /\ http[1].endpoint = "releases/latest"
    /\ name = "get_dependency_file" =>
          Len(http) = 1 /\ http[1].endpoint = "contents"
    /\ name = "get_release_prs" =>
          /\ Len(http) \in {1, 2}
          /\ http[1].endpoint = "releases/tags"
          /\ Len(http) = 2 =>
                /\ http[2].endpoint = "issues"
                /\ http[2].params.per_page = 50

\* C11: no retries and a single page: whatever the answers, an invocation of
\* check_latest_release or of get_dependency_file makes exactly one HTTP
\* request, one of get_release_prs makes the tagged-release request and
\* then at most one issues request, with per_page = 50, and no endpoint is
\* asked twice; this holds of the invocations that return and of those
\* that raise.
C11_OneRequestPerEndpoint ==
    /\ \A i \in 1..Len(tool_results) :
          tool_results[i].key = "output" =>
              RequestsWithinLimit(tool_results[i].name, trace[i])
    /\ pc = "raised" =>
          RequestsWithinLimit(function_calls[idx].name, raised_by)

\* C11 witness: get_release_prs went through both of its requests, the
\* second one a failed issues request that was not repeated
C11_Witness ==
    \E i \in OutputsOf("get_release_prs") :
        /\ Len(trace[i]) = 2
        /\ trace[i][2].outcome.exc
        /\ trace[i][2].params.per_page = 50

\* C11 second case, reachable too: a failed latest-release request was made
\* once
C11_FailedOnceReached ==
    \E i \in OutputsOf("check_latest_release") :
        Len(trace[i]) = 1 /\ trace[i][1].outcome.status = 500

----------------------------------------------------------------------------
(* The session call counter *)

\* The send_message calls made by one step: the prompt of a new turn, or
\* the growth of the turn's count
SendsOfStep == IF turns' # turns THEN 1 ELSE sent'.count - sent.count

\* C12: gemini_calls counts the calls to the model session: every step
\* raises it by exactly the number of send_message calls the step makes, so
\* that over a user turn of k tool rounds it grows by k + 1.
C12_CounterCountsSends ==
    [][gemini_calls' - gemini_calls = SendsOfStep]_vars

\* C12, what the code does instead, reachable: a turn answered without any
\* tool round has made one send_message call and counted two
C12_CountedTwiceReached ==
    pc = "done" /\ rounds = 0 /\ sent.count = 1 /\ gemini_calls = 2

====
